---------------------------- MODULE Spec2Model ----------------------------
(***************************************************************************)
(* Model of update_kinostarts_calendar.py: the German date parser, the     *)
(* title extractor, the event harvester with its cross-fragment merge, the *)
(* iCalendar writer and the main entry point.                              *)
(*                                                                         *)
(* Python strings are sequences of one-character strings, so that          *)
(* splitting, stripping, searching and formatting are computed and not     *)
(* assumed.  A Python call that may raise returns a record                 *)
(* [exc, val]: exc = "none" and val the value, or exc the exception name.  *)
(***************************************************************************)
EXTENDS Integers, Sequences, FiniteSets, TLC

VARIABLES
  date_src,     \* the tokens the argument of parse_date is written from
  date_str,     \* parse_date: the argument
  date_res,     \* parse_date: NotCalled, or the outcome of the call
  cell,         \* parse_titles: the <td>, as its sequence of text nodes
  cell_titles,  \* parse_titles: NotCalled, or the returned list
  titles,       \* fetch_events: the concatenated title list of one date
  merged,       \* fetch_events: the list `merged` of the merge loop
  i,            \* fetch_events: the index `i` of the merge loop (0-based)
  argv,         \* main: the command line
  pc,           \* main: position of the run
  today,        \* fetch_events: the reference datetime
  response,     \* fetch_events: outcome of requests.get
  page,         \* the parsed document (soup), as its sequence of nodes
  k,            \* fetch_events: number of date cells already visited
  contrib,      \* per visited date cell, the events it appended
  events,       \* the list `events`
  file,         \* content of the file at the output path
  stdout        \* lines printed

dateVars == <<date_src, date_str, date_res>>

titleVars == <<cell, cell_titles>>

mergeVars == <<titles, merged, i>>

vars == <<dateVars, titleVars, mergeVars, argv, pc, today, response, page, k,
          contrib, events, file, stdout>>

NotCalled == [exc |-> "not called", val |-> << >>]

Ok(v) == [exc |-> "none", val |-> v]

Raise(e) == [exc |-> e, val |-> << >>]

-----------------------------------------------------------------------------
(* Bounds of the model.                                                    *)

\* day numbers 0..MaxDay are tried as day tokens (one past the longest month)
MaxDay == 32

\* a table cell holds at most MaxNodes text nodes
MaxNodes == 3

\* the title list of one date holds at most MaxTitles entries
MaxTitles == 4

\* write_ics is given at most MaxEvents events
MaxEvents == 2

\* the fetched document holds at most MaxRows top-level rows
MaxRows == 3

\* the sequences over S of length at most n
SeqUpTo(S, n) == UNION {[1..m -> S] : m \in 0..n}

-----------------------------------------------------------------------------
(* Python str and int primitives.                                          *)

Digit == {"0", "1", "2", "3", "4", "5", "6", "7", "8", "9"}

DigitVal == [c \in Digit |->
  CASE c = "0" -> 0 [] c = "1" -> 1 [] c = "2" -> 2 [] c = "3" -> 3
    [] c = "4" -> 4 [] c = "5" -> 5 [] c = "6" -> 6 [] c = "7" -> 7
    [] c = "8" -> 8 [] c = "9" -> 9]

DigitChar == <<"0", "1", "2", "3", "4", "5", "6", "7", "8", "9">>

\* the characters of the model that str.strip() and str.split() treat as
\* whitespace
Whitespace == {" ", "\t", "\n", "\r"}

\* s[a..b], 1-based and inclusive; empty when a > b
Slice(s, a, b) == [j \in 1..(b - a + 1) |-> s[a + j - 1]]

\* index of the first occurrence of character c in s, or 0
RECURSIVE FindFrom(_, _, _)
FindFrom(s, c, j) ==
  IF j > Len(s) THEN 0 ELSE IF s[j] = c THEN j ELSE FindFrom(s, c, j + 1)

Find(s, c) == FindFrom(s, c, 1)

\* `c in s` for a one-character c
HasChar(s, c) == \E j \in 1..Len(s) : s[j] = c

\* `sub in s`: substring search
Contains(s, sub) ==
  \E a \in 0..(Len(s) - Len(sub)) : \A j \in 1..Len(sub) : s[a + j] = sub[j]

\* s.startswith(p)
StartsWith(s, p) == Len(s) >= Len(p) /\ \A j \in 1..Len(p) : s[j] = p[j]

\* s.split(c)[0]: the text before the first c, the whole text without one
SplitFirst(s, c) == IF Find(s, c) = 0 THEN s ELSE Slice(s, 1, Find(s, c) - 1)

\* s.strip()
Strip(s) ==
  LET keep == {j \in 1..Len(s) : s[j] \notin Whitespace}
  IN IF keep = {} THEN << >>
     ELSE Slice(s, CHOOSE a \in keep : \A b \in keep : a <= b,
                   CHOOSE a \in keep : \A b \in keep : a >= b)

\* s.split(c) for a one-character separator, from position a on: empty
\* pieces are kept
RECURSIVE SplitFrom(_, _, _)
SplitFrom(s, c, a) ==
  LET j == FindFrom(s, c, a)
  IN IF j = 0 THEN <<Slice(s, a, Len(s))>>
     ELSE <<Slice(s, a, j - 1)>> \o SplitFrom(s, c, j + 1)

SplitOn(s, c) == SplitFrom(s, c, 1)

\* s.split(), from position a on: the maximal runs of non-whitespace
\* characters
RECURSIVE SplitWsFrom(_, _)
SplitWsFrom(s, a) ==
  LET word == {j \in a..Len(s) : s[j] \notin Whitespace}
      first == CHOOSE j \in word : \A n \in word : j <= n
      gaps == {j \in first..Len(s) : s[j] \in Whitespace}
      stop == IF gaps = {} THEN Len(s) + 1
              ELSE CHOOSE j \in gaps : \A n \in gaps : j <= n
  IN IF word = {} THEN << >>
     ELSE <<Slice(s, first, stop - 1)>> \o SplitWsFrom(s, stop)

SplitWs(s) == SplitWsFrom(s, 1)

\* s.replace(c, '')
Remove(s, c) == SelectSeq(s, LAMBDA x : x # c)

\* sep.join(list)
RECURSIVE Join(_, _)
Join(list, sep) ==
  IF list = << >> THEN << >>
  ELSE IF Len(list) = 1 THEN list[1]
  ELSE list[1] \o sep \o Join(Tail(list), sep)

RECURSIVE DigitsValue(_, _)
DigitsValue(s, acc) ==
  IF s = << >> THEN acc
  ELSE DigitsValue(Tail(s), IF s[1] = "_" THEN acc ELSE 10 * acc + DigitVal[s[1]])

\* int(s) for a token without whitespace: an optional sign, then decimal
\* digits that single underscores may separate; ValueError otherwise
PyIntLenient(s) ==
  LET digits == SelectSeq(s, LAMBDA x : x \in Digit)
  IN IF digits = << >> THEN Raise("ValueError") ELSE Ok(DigitsValue(digits, 0))

PyInt(s) ==
  LET signed == s # << >> /\ s[1] \in {"+", "-"}
      body == IF signed THEN Tail(s) ELSE s
      wellFormed ==
        /\ body # << >>
        /\ \A j \in 1..Len(body) : body[j] \in Digit \cup {"_"}
        /\ body[1] # "_" /\ body[Len(body)] # "_"
        /\ \A j \in 1..(Len(body) - 1) : ~(body[j] = "_" /\ body[j + 1] = "_")
  IN IF ~wellFormed THEN Raise("ValueError")
     ELSE IF signed /\ s[1] = "-" THEN Ok(0 - DigitsValue(body, 0))
     ELSE Ok(DigitsValue(body, 0))

\* str(n) for n >= 0
RECURSIVE Str(_)
Str(n) ==
  IF n < 10 THEN <<DigitChar[n + 1]>>
  ELSE Str(n \div 10) \o <<DigitChar[(n % 10) + 1]>>

\* str(n) padded with zeros to two digits
Pad2(n) == IF n < 10 THEN <<"0">> \o Str(n) ELSE Str(n)

-----------------------------------------------------------------------------
(* datetime.                                                               *)

IsLeap(y) == (y % 4 = 0 /\ y % 100 # 0) \/ y % 400 = 0

DaysInMonth(y, m) ==
  IF m = 2 THEN (IF IsLeap(y) THEN 29 ELSE 28)
  ELSE IF m \in {4, 6, 9, 11} THEN 30 ELSE 31

\* datetime(year, month, day): midnight of that day, ValueError out of range
datetime(year, month, day) ==
  IF year < 1 \/ year > 9999 \/ month < 1 \/ month > 12
     \/ day < 1 \/ day > DaysInMonth(year, month)
  THEN Raise("ValueError")
  ELSE Ok([date |-> <<year, month, day>>, hour |-> 0])

-----------------------------------------------------------------------------
(* parse_date.                                                             *)

Januar == <<"J", "a", "n", "u", "a", "r">>
Februar == <<"F", "e", "b", "r", "u", "a", "r">>
Maerz == <<"M", "ä", "r", "z">>
April == <<"A", "p", "r", "i", "l">>
Mai == <<"M", "a", "i">>
Juni == <<"J", "u", "n", "i">>
Juli == <<"J", "u", "l", "i">>
August == <<"A", "u", "g", "u", "s", "t">>
September == <<"S", "e", "p", "t", "e", "m", "b", "e", "r">>
Oktober == <<"O", "k", "t", "o", "b", "e", "r">>
November == <<"N", "o", "v", "e", "m", "b", "e", "r">>
Dezember == <<"D", "e", "z", "e", "m", "b", "e", "r">>

MONTH_MAP ==
  (Januar :> 1) @@ (Februar :> 2) @@ (Maerz :> 3) @@ (April :> 4) @@ (Mai :> 5)
  @@ (Juni :> 6) @@ (Juli :> 7) @@ (August :> 8) @@ (September :> 9)
  @@ (Oktober :> 10) @@ (November :> 11) @@ (Dezember :> 12)

\* a lookup that counts the months from zero
MonthLookupZeroBased(month_name) ==
  IF month_name \in DOMAIN MONTH_MAP THEN Ok(MONTH_MAP[month_name] - 1)
  ELSE Raise("KeyError")

\* a lookup that matches on the first three letters only
MonthLookupByPrefix(month_name) ==
  LET hits == {n \in DOMAIN MONTH_MAP :
                 Len(month_name) >= 3 /\ Slice(n, 1, 3) = Slice(month_name, 1, 3)}
  IN IF hits = {} THEN Raise("KeyError")
     ELSE Ok(MONTH_MAP[CHOOSE n \in hits : TRUE])

\* MONTH_MAP[month_name]
MonthLookup(month_name) ==
  IF month_name \in DOMAIN MONTH_MAP THEN Ok(MONTH_MAP[month_name])
  ELSE Raise("KeyError")

\* date_str.split('(')[0].strip()
StripAnnotation(s) == Strip(SplitFirst(s, "("))

parse_date(s) ==
  LET parts == SplitWs(StripAnnotation(s))
  IN IF Len(parts) < 1 THEN Raise("IndexError")
     ELSE LET day == PyInt(Remove(parts[1], "."))
          IN IF day.exc # "none" THEN day
             ELSE IF Len(parts) < 3 THEN Raise("IndexError")
             ELSE LET year == PyInt(parts[3])
                      month == MonthLookup(parts[2])
                  IN IF year.exc # "none" THEN year
                     ELSE IF month.exc # "none" THEN month
                     ELSE datetime(year.val, month.val, day.val)

-----------------------------------------------------------------------------
(* parse_titles.                                                           *)

\* cell.get_text("\n"): the text nodes of the cell joined by newlines
GetTextNewline(c) == Join(c, <<"\n">>)

\* [l.strip() for l in text.split('\n') if l.strip()]
CellLines(c) ==
  LET raw == SplitOn(GetTextNewline(c), "\n")
      stripped == [j \in 1..Len(raw) |-> Strip(raw[j])]
  IN SelectSeq(stripped, LAMBDA l : l # << >>)

\* only a parenthesis marks a continuation
IsContinuationParenOnly(line) == StartsWith(line, <<"(">>)

\* line.startswith('(') or line.startswith('WA') or line == 'WA'
IsContinuation(line) ==
  StartsWith(line, <<"(">>) \/ StartsWith(line, <<"W", "A">>) \/ line = <<"W", "A">>

\* the loop over `lines`, from the list `acc` built so far
RECURSIVE TitlesLoop(_, _)
TitlesLoop(lines, acc) ==
  IF lines = << >> THEN acc
  ELSE TitlesLoop(Tail(lines),
         IF IsContinuation(lines[1]) /\ acc # << >>
         THEN [acc EXCEPT ![Len(acc)] = @ \o <<" ">> \o lines[1]]
         ELSE Append(acc, lines[1]))

parse_titles(c) == TitlesLoop(CellLines(c), << >>)

-----------------------------------------------------------------------------
(* The cross-fragment merge of fetch_events.                               *)

\* the walk merges whenever a next entry exists
MergeCondAlways(ts, n) == n + 1 < Len(ts)

\* i + 1 < len(titles) and '(' not in titles[i] and '(' in titles[i + 1],
\* for the 0-based index n
MergeCond(ts, n) ==
  /\ n + 1 < Len(ts)
  /\ ~HasChar(ts[n + 1], "(")
  /\ HasChar(ts[n + 2], "(")

\* a merge that keeps only the first of the two entries
MergeIterDropSecond(ts, st) ==
  IF MergeCond(ts, st.i)
  THEN [i |-> st.i + 2, merged |-> Append(st.merged, ts[st.i + 1])]
  ELSE [i |-> st.i + 1, merged |-> Append(st.merged, ts[st.i + 1])]

\* one iteration of the while loop, from the loop state st = [i, merged]
MergeIter(ts, st) ==
  IF MergeCond(ts, st.i)
  THEN [i |-> st.i + 2,
        merged |-> Append(st.merged, ts[st.i + 1] \o <<" ">> \o ts[st.i + 2])]
  ELSE [i |-> st.i + 1, merged |-> Append(st.merged, ts[st.i + 1])]

\* while i < len(titles): ...
RECURSIVE MergeLoop(_, _)
MergeLoop(ts, st) ==
  IF st.i < Len(ts) THEN MergeLoop(ts, MergeIter(ts, st)) ELSE st.merged

Merge(ts) == MergeLoop(ts, [i |-> 0, merged |-> << >>])

-----------------------------------------------------------------------------
(* fetch_events.  The document is a sequence of nodes: a <tr> with its     *)
(* <td> cells, or a <td> that stands outside any row.  A cell is its class *)
(* and its text nodes.                                                     *)

DATE_CLASS == "auto-style68"

\* number of years, from today's, whose digits let a date cell through
YearWindow == 10

Row(cells) == [tag |-> "tr", cells |-> cells]

BareCell(c) == [tag |-> "td", cells |-> <<c>>]

DateCell(strings) == [cls |-> DATE_CLASS, strings |-> strings]

PlainCell(strings) == [cls |-> "", strings |-> strings]

\* the references <<node, cell>> of all cells of the document, in order
RECURSIVE CellRefsFrom(_, _)
CellRefsFrom(doc, r) ==
  IF r > Len(doc) THEN << >>
  ELSE [c \in 1..Len(doc[r].cells) |-> <<r, c>>] \o CellRefsFrom(doc, r + 1)

CellAt(doc, ref) == doc[ref[1]].cells[ref[2]]

\* soup.find_all('td', class_='auto-style68')
FindDateCells(doc) ==
  SelectSeq(CellRefsFrom(doc, 1), LAMBDA ref : CellAt(doc, ref).cls = DATE_CLASS)

\* date_cell.get_text(strip=True): the stripped, non-empty text nodes, joined
GetTextStrip(c) ==
  LET stripped == [j \in 1..Len(c.strings) |-> Strip(c.strings[j])]
  IN Join(SelectSeq(stripped, LAMBDA t : t # << >>), << >>)

\* any(str(year) in date_text for year in range(today.year, today.year + 10))
HasNearYear(date_text, now) ==
  \E year \in now.date[1]..(now.date[1] + YearWindow - 1) :
    Contains(date_text, Str(year))

\* a < b for dates <<year, month, day>>
DateLess(a, b) ==
  \/ a[1] < b[1]
  \/ a[1] = b[1] /\ a[2] < b[2]
  \/ a[1] = b[1] /\ a[2] = b[2] /\ a[3] < b[3]

\* the comparison made on the datetimes, time of day included
IsPastByDatetime(event_date, now) ==
  \/ DateLess(event_date.date, now.date)
  \/ event_date.date = now.date /\ event_date.hour < now.hour

\* event_date.date() < today.date()
IsPast(event_date, now) == DateLess(event_date.date, now.date)

\* a parse error ends the run
OnParseErrorPropagate == "raise"

\* except Exception: continue
OnParseError == "continue"

\* date_cell.find_parent('tr'): the node of the row, 0 for None
FindParentRow(doc, ref) == IF doc[ref[1]].tag = "tr" THEN ref[1] ELSE 0

\* tr.find_next_sibling('tr'): the next row after node r, 0 for None
FindNextSiblingRow(doc, r) ==
  LET later == {n \in (r + 1)..Len(doc) : doc[n].tag = "tr"}
  IN IF later = {} THEN 0 ELSE CHOOSE a \in later : \A b \in later : a <= b

\* for td in next_tr.find_all('td'): titles.extend(parse_titles(td))
RECURSIVE RowTitlesFrom(_, _)
RowTitlesFrom(cells, c) ==
  IF c > Len(cells) THEN << >>
  ELSE parse_titles(cells[c].strings) \o RowTitlesFrom(cells, c + 1)

RowTitles(row) == RowTitlesFrom(row.cells, 1)

\* the body of the loop over the date cells, for the cell at ref: the events
\* it appends, or the exception that leaves the loop
LoopBody(doc, now, ref) ==
  LET date_text == GetTextStrip(CellAt(doc, ref))
      parsed == parse_date(date_text)
      tr == FindParentRow(doc, ref)
      next_tr == FindNextSiblingRow(doc, tr)
      mergedTitles == Merge(RowTitles(doc[next_tr]))
  IN IF ~HasNearYear(date_text, now) THEN Ok(<< >>)
     ELSE IF parsed.exc # "none"
       THEN (IF OnParseError = "continue" THEN Ok(<< >>) ELSE Raise(parsed.exc))
     ELSE IF IsPast(parsed.val, now) THEN Ok(<< >>)
     ELSE IF tr = 0 THEN Raise("AttributeError")
     ELSE IF next_tr = 0 THEN Raise("AttributeError")
     ELSE Ok([n \in 1..Len(mergedTitles) |-> <<parsed.val.date, mergedTitles[n]>>])

\* the loop over refs from the list acc: the final list, or the exception
RECURSIVE FetchLoop(_, _, _, _)
FetchLoop(doc, now, refs, acc) ==
  IF refs = << >> THEN Ok(acc)
  ELSE LET step == LoopBody(doc, now, refs[1])
       IN IF step.exc # "none" THEN step
          ELSE FetchLoop(doc, now, Tail(refs), acc \o step.val)

\* fetch_events from the parsed document on
Harvest(doc, now) == FetchLoop(doc, now, FindDateCells(doc), << >>)

\* a status check that lets every response through
RaiseForStatusNever(status) == FALSE

\* response.raise_for_status() raises: the status is a 4xx or a 5xx
RaiseForStatus(status) == 400 <= status /\ status < 600

-----------------------------------------------------------------------------
(* write_ics.                                                              *)

\* str(n) padded with zeros to four digits
Pad4(n) ==
  IF n < 10 THEN <<"0", "0", "0">> \o Str(n)
  ELSE IF n < 100 THEN <<"0", "0">> \o Str(n)
  ELSE IF n < 1000 THEN <<"0">> \o Str(n) ELSE Str(n)

\* date.strftime('%Y%m%d')
Strftime(date) == Pad4(date[1]) \o Pad2(date[2]) \o Pad2(date[3])

\* the day after, with December 31 followed by January 1 of the same year
PlusOneDayNoYearCarry(date) ==
  IF date[3] < DaysInMonth(date[1], date[2]) THEN <<date[1], date[2], date[3] + 1>>
  ELSE IF date[2] < 12 THEN <<date[1], date[2] + 1, 1>>
  ELSE <<date[1], 1, 1>>

\* date + timedelta(days=1)
PlusOneDay(date) ==
  IF date[3] < DaysInMonth(date[1], date[2]) THEN <<date[1], date[2], date[3] + 1>>
  ELSE IF date[2] < 12 THEN <<date[1], date[2] + 1, 1>>
  ELSE <<date[1] + 1, 1, 1>>

CalendarHead ==
  <<<<"B", "E", "G", "I", "N", ":", "V", "C", "A", "L", "E", "N", "D", "A", "R">>, <<"V", "E", "R", "S", "I", "O", "N", ":", "2", ".", "0">>, <<"C", "A", "L", "S", "C", "A", "L", "E", ":", "G", "R", "E", "G", "O", "R", "I", "A", "N">>,
    <<"X", "-", "W", "R", "-", "C", "A", "L", "N", "A", "M", "E", ":", "D", "e", "u", "t", "s", "c", "h", "e", " ", "K", "i", "n", "o", "s", "t", "a", "r", "t", "s">>, <<"X", "-", "W", "R", "-", "T", "I", "M", "E", "Z", "O", "N", "E", ":", "E", "u", "r", "o", "p", "e", "/", "B", "e", "r", "l", "i", "n">>>>

\* the six lines appended for one event, uid the value of uuid.uuid4()
EventLines(event, uid) ==
  <<<<"B", "E", "G", "I", "N", ":", "V", "E", "V", "E", "N", "T">>,
    <<"D", "T", "S", "T", "A", "R", "T", ";", "V", "A", "L", "U", "E", "=", "D", "A", "T", "E", ":">> \o Strftime(event[1]),
    <<"D", "T", "E", "N", "D", ";", "V", "A", "L", "U", "E", "=", "D", "A", "T", "E", ":">> \o Strftime(PlusOneDay(event[1])),
    <<"S", "U", "M", "M", "A", "R", "Y", ":">> \o event[2],
    <<"U", "I", "D", ":">> \o uid,
    <<"E", "N", "D", ":", "V", "E", "V", "E", "N", "T">>>>

RECURSIVE AllEventLines(_, _, _)
AllEventLines(evs, uids, n) ==
  IF n > Len(evs) THEN << >>
  ELSE EventLines(evs[n], uids[n]) \o AllEventLines(evs, uids, n + 1)

\* the text write_ics writes for the events, uids the identifiers drawn
write_ics(evs, uids) ==
  Join(CalendarHead \o AllEventLines(evs, uids, 1) \o <<<<"E", "N", "D", ":", "V", "C", "A", "L", "E", "N", "D", "A", "R">>>>, <<"\n">>)

\* values uuid.uuid4() may return, shortened
UuidPool == {<<"1", "b", "4", "e", "2", "8", "b", "a">>, <<"9", "f", "0", "c", "6", "d", "2", "e">>}

\* what the output file holds before the run
OldFile == <<"B", "E", "G", "I", "N", ":", "V", "C", "A", "L", "E", "N", "D", "A", "R", "\n", "E", "N", "D", ":", "V", "C", "A", "L", "E", "N", "D", "A", "R">>

-----------------------------------------------------------------------------
(* main.                                                                   *)

\* Path(argv[1]) if len(argv) > 1 else Path('kinostarts_calendar.ics')
OutputPath(args) == IF Len(args) > 1 THEN args[2] ELSE <<"k", "i", "n", "o", "s", "t", "a", "r", "t", "s", "_", "c", "a", "l", "e", "n", "d", "a", "r", ".", "i", "c", "s">>

\* f'Generated {len(events)} events and wrote to {output_path}'
SummaryLine(evs, output_path) ==
  <<"G", "e", "n", "e", "r", "a", "t", "e", "d", " ">> \o Str(Len(evs)) \o <<" ", "e", "v", "e", "n", "t", "s", " ", "a", "n", "d", " ", "w", "r", "o", "t", "e", " ", "t", "o", " ">> \o output_path

-----------------------------------------------------------------------------
(* Specification SpecDate: parse_date applied to one argument.             *)

YearsTried == {2024, 2025, 2100}

DayTokens ==
  {Str(d) \o <<".">> : d \in 0..MaxDay} \cup {Pad2(d) \o <<".">> : d \in {1, 7}}
  \cup {<<"7">>, <<"x", ".">>, <<"1", ".", "4", ".">>, <<"+", "7", ".">>, <<"1", "_", "4", ".">>, <<"-", "7", ".">>, <<".">>, <<"7", ".", "x">>}

MonthTokens ==
  DOMAIN MONTH_MAP \cup {<<"S", "m", "a", "r", "c", "h">>, <<"a", "u", "g", "u", "s", "t">>, <<"A", "u", "g">>, <<"A", "u", "g", "u", "s", "t", "a">>, <<"8">>}

YearTokens ==
  {Str(y) : y \in YearsTried} \cup {<<"2", "0", "x", "5">>, <<"0", "0", "0", "0">>, <<"2", "0", "2", "5", ".">>}

Separators == {<<" ">>, <<"\t", " ">>}

ParenAnnotations ==
  {<< >>, <<" ", "(", "M", "a", "r", "i", "ä", " ", "H", "i", "m", "m", "e", "l", "f", "a", "h", "r", "t", "/", "F", "r", ")">>, <<" ", "(", "a", " ", "(", "b", ")", ")">>, <<" ", "(", "1", ".", " ", "M", "a", "i", " ", "2", "0", "2", "4", ")">>}

Suffixes == ParenAnnotations \cup {<<" ", "e", "x", "t", "r", "a">>, <<"(", "x">>, <<" ">>}

Shapes == {"day month year", "day month", "day", "daymonth year", "nothing"}

DateSources ==
  [shape : {"day month year"}, day : DayTokens, month : MonthTokens,
   year : YearTokens, sep : Separators, suffix : Suffixes]
  \cup [shape : Shapes \ {"day month year"}, day : {<<"1", "4", ".">>, <<"x", ".">>},
        month : {August, <<"S", "m", "a", "r", "c", "h">>}, year : {<<"2", "0", "2", "5">>}, sep : {<<" ">>},
        suffix : Suffixes]

\* the text a source stands for
Render(src) ==
  CASE src.shape = "day month year" ->
         src.day \o src.sep \o src.month \o src.sep \o src.year \o src.suffix
    [] src.shape = "day month" -> src.day \o src.sep \o src.month \o src.suffix
    [] src.shape = "day" -> src.day \o src.suffix
    [] src.shape = "daymonth year" ->
         src.day \o src.month \o src.sep \o src.year \o src.suffix
    [] src.shape = "nothing" -> src.suffix

IdleDate == date_src = << >> /\ date_str = << >> /\ date_res = NotCalled

IdleTitles == cell = << >> /\ cell_titles = NotCalled

IdleMerge == titles = << >> /\ merged = << >> /\ i = 0

IdleFetch ==
  /\ argv = << >> /\ today = << >> /\ response = << >> /\ page = << >>
  /\ k = 0 /\ contrib = << >> /\ stdout = << >>

IdleRun == pc = "idle" /\ IdleFetch /\ events = << >> /\ file = << >>

InitDate ==
  /\ date_src \in DateSources
  /\ date_str = Render(date_src)
  /\ date_res = NotCalled
  /\ IdleTitles /\ IdleMerge /\ IdleRun

CallParseDate ==
  /\ date_res = NotCalled
  /\ date_res' = parse_date(date_str)
  /\ UNCHANGED <<titleVars, mergeVars, date_src, date_str, argv, pc, today,
                 response, page, k, contrib, events, file, stdout>>

NextDate == CallParseDate

SpecDate == InitDate /\ [][NextDate]_vars

-----------------------------------------------------------------------------
(* Specification SpecTitles: parse_titles applied to one cell.             *)

TextNodes ==
  {<<"F", "i", "l", "m", " ", "A">>, <<"(", "X", "Y", "Z", ")">>, <<"F", "i", "l", "m", " ", "B">>, <<"W", "A">>, <<" ">>, <<"W", "A", "x", " ", "(", "Q", ")">>,
   <<" ", "(", "Q", ")", "\n", "F", "i", "l", "m", " ", "C", " ", "\n">>, <<"W", "a">>}

InitTitles ==
  /\ cell \in SeqUpTo(TextNodes, MaxNodes)
  /\ cell_titles = NotCalled
  /\ IdleDate /\ IdleMerge /\ IdleRun

CallParseTitles ==
  /\ cell_titles = NotCalled
  /\ cell_titles' = Ok(parse_titles(cell))
  /\ UNCHANGED <<dateVars, mergeVars, cell, argv, pc, today, response, page,
                 k, contrib, events, file, stdout>>

NextTitles == CallParseTitles

SpecTitles == InitTitles /\ [][NextTitles]_vars

-----------------------------------------------------------------------------
(* Specification SpecMerge: the merge loop, one iteration per step.        *)

TitlePool ==
  {<<"P", "l", "a", "t", "t", "f", "u", "ß", " ", "a", "m">>, <<"N", "i", "l", " ", "(", "C", "R", "C", ")", " ", "W", "A">>, <<"O", "t", "h", "e", "r", " ", "F", "i", "l", "m", " ", "(", "X", "Y", "Z", ")">>, <<"F", "i", "l", "m", " ", "A">>, <<"(", "X", "Y", "Z", ")">>}

InitMerge ==
  /\ titles \in SeqUpTo(TitlePool, MaxTitles)
  /\ merged = << >>
  /\ i = 0
  /\ IdleDate /\ IdleTitles /\ IdleRun

MergeStep ==
  /\ i < Len(titles)
  /\ i' = MergeIter(titles, [i |-> i, merged |-> merged]).i
  /\ merged' = MergeIter(titles, [i |-> i, merged |-> merged]).merged
  /\ UNCHANGED <<dateVars, titleVars, titles, argv, pc, today, response, page,
                 k, contrib, events, file, stdout>>

NextMerge == MergeStep

SpecMerge == InitMerge /\ [][NextMerge]_vars

\* the loop is sequential code: an iteration that can run does run
SpecMergeFair == SpecMerge /\ WF_vars(MergeStep)

-----------------------------------------------------------------------------
(* Specification SpecIcs: write_ics applied to one event list.             *)

\* the last day of every month of 2025, the days around the leap day and
\* the year's end of 2024, and the example of the specification
EventDates ==
  {<<2025, m, DaysInMonth(2025, m)>> : m \in 1..12}
  \cup {<<2024, 2, 28>>, <<2024, 2, 29>>, <<2024, 12, 31>>, <<2025, 8, 14>>}

EventPool ==
  {<<d, <<"F", "i", "l", "m", " ", "X">>>> : d \in EventDates}
  \cup {<<<<2025, 8, 14>>, <<"N", "i", "l", " ", "(", "C", "R", "C", ")", " ", "W", "A">>>>, <<<<2025, 12, 31>>, <<"S", "U", "M", "M", "A", "R", "Y", ":">>>>}

InitIcs ==
  /\ events \in SeqUpTo(EventPool, MaxEvents)
  /\ file = OldFile
  /\ pc = "write_ics"
  /\ IdleDate /\ IdleTitles /\ IdleMerge /\ IdleFetch

CallWriteIcs ==
  /\ pc = "write_ics"
  /\ \E uids \in [1..Len(events) -> UuidPool] : file' = write_ics(events, uids)
  /\ pc' = "returned"
  /\ UNCHANGED <<dateVars, titleVars, mergeVars, argv, today, response, page,
                 k, contrib, events, stdout>>

NextIcs == CallWriteIcs

SpecIcs == InitIcs /\ [][NextIcs]_vars

-----------------------------------------------------------------------------
(* Specification Spec: one run of main.                                    *)

\* datetime.now(): the day of the specification's example, at midnight and
\* in the afternoon
Clock == {[date |-> <<2025, 8, 10>>, hour |-> h] : h \in {0, 13}}

\* status codes requests.get may come back with: success, a redirect that
\* is not followed, a client error, a server error
Statuses == {200, 304, 404, 500}

\* a date row before the reference day
PastRow == Row(<<DateCell(<<<<"7", ".", " ", "A", "u", "g", "u", "s", "t", " ", "2", "0", "2", "5">>>>)>>)

\* a date row of the reference day
TodayRow == Row(<<DateCell(<<<<"1", "0", ".", " ", "A", "u", "g", "u", "s", "t", " ", "2", "0", "2", "5">>>>)>>)

\* a date row after the reference day, its annotation in a text node of
\* its own
HolidayRow ==
  Row(<<DateCell(<<<<"1", "4", ".", " ", "A", "u", "g", "u", "s", "t", " ", "2", "0", "2", "5", " ">>, <<"(", "M", "a", "r", "i", "ä", " ", "H", "i", "m", "m", "e", "l", "f", "a", "h", "r", "t", "/", "F", "r", ")">>>>)>>)

\* a date row ten years after the reference year
FarRow == Row(<<DateCell(<<<<"1", ".", " ", "J", "a", "n", "u", "a", "r", " ", "2", "0", "3", "5">>>>)>>)

\* a date row with an unknown month name
SmarchRow == Row(<<DateCell(<<<<"1", "4", ".", " ", "S", "m", "a", "r", "c", "h", " ", "2", "0", "2", "5">>>>)>>)

\* a date cell outside any row
StrayCell == BareCell(DateCell(<<<<"1", "1", ".", " ", "A", "u", "g", "u", "s", "t", " ", "2", "0", "2", "5">>>>))

\* a title row of two category cells, a title split across them
NilRow ==
  Row(<<PlainCell(<<<<"P", "l", "a", "t", "t", "f", "u", "ß", " ", "a", "m">>>>),
        PlainCell(<<<<"N", "i", "l", " ", "(", "C", "R", "C", ")", " ", "W", "A">>, <<"O", "t", "h", "e", "r", " ", "F", "i", "l", "m", " ", "(", "X", "Y", "Z", ")">>>>)>>)

\* a row without cells
EmptyRow == Row(<< >>)

RowKinds ==
  {PastRow, TodayRow, HolidayRow, FarRow, SmarchRow, StrayCell, NilRow,
   EmptyRow}

Pages == SeqUpTo(RowKinds, MaxRows)

NoResponse == [exc |-> "not called", status |-> 0]

\* the command lines tried: without and with an output file
CommandLines == {<<<<"u", "p", "d", "a", "t", "e", ".", "p", "y">>>>, <<<<"u", "p", "d", "a", "t", "e", ".", "p", "y">>, <<"o", "u", "t", ".", "i", "c", "s">>>>}

Init ==
  /\ argv \in CommandLines
  /\ pc = "start"
  /\ today \in Clock
  /\ response = NoResponse
  /\ page = << >>
  /\ k = 0
  /\ contrib = << >>
  /\ events = << >>
  /\ file = OldFile
  /\ stdout = << >>
  /\ IdleDate /\ IdleTitles /\ IdleMerge

\* requests.get(url) raises: no response arrives
FetchFails ==
  /\ pc = "start"
  /\ response' = [exc |-> "ConnectionError", status |-> 0]
  /\ pc' = "crashed"
  /\ UNCHANGED <<dateVars, titleVars, mergeVars, argv, today, page, k,
                 contrib, events, file, stdout>>

\* requests.get(url) returns; raise_for_status; the content is parsed
FetchResponds ==
  /\ pc = "start"
  /\ \E status \in Statuses, doc \in Pages :
       /\ response' = [exc |-> "none", status |-> status]
       /\ IF RaiseForStatus(status)
          THEN pc' = "crashed" /\ page' = << >>
          ELSE pc' = "loop" /\ page' = doc
  /\ UNCHANGED <<dateVars, titleVars, mergeVars, argv, today, k, contrib,
                 events, file, stdout>>

\* one iteration of `for date_cell in soup.find_all(...)`
VisitDateCell ==
  /\ pc = "loop"
  /\ k < Len(FindDateCells(page))
  /\ LET step == LoopBody(page, today, FindDateCells(page)[k + 1])
     IN IF step.exc # "none"
        THEN pc' = "crashed" /\ UNCHANGED <<k, contrib, events>>
        ELSE /\ k' = k + 1
             /\ contrib' = Append(contrib, step.val)
             /\ events' = events \o step.val
             /\ pc' = pc
  /\ UNCHANGED <<dateVars, titleVars, mergeVars, argv, today, response, page,
                 file, stdout>>

\* return events
ReturnEvents ==
  /\ pc = "loop"
  /\ k = Len(FindDateCells(page))
  /\ pc' = "harvested"
  /\ UNCHANGED <<dateVars, titleVars, mergeVars, argv, today, response, page,
                 k, contrib, events, file, stdout>>

\* write_ics(events, output_path)
WriteIcs ==
  /\ pc = "harvested"
  /\ \E uids \in [1..Len(events) -> UuidPool] : file' = write_ics(events, uids)
  /\ pc' = "written"
  /\ UNCHANGED <<dateVars, titleVars, mergeVars, argv, today, response, page,
                 k, contrib, events, stdout>>

\* print(f'Generated ...')
PrintSummary ==
  /\ pc = "written"
  /\ stdout' = Append(stdout, SummaryLine(events, OutputPath(argv)))
  /\ pc' = "done"
  /\ UNCHANGED <<dateVars, titleVars, mergeVars, argv, today, response, page,
                 k, contrib, events, file>>

Next ==
  \/ FetchFails
  \/ FetchResponds
  \/ VisitDateCell
  \/ ReturnEvents
  \/ WriteIcs
  \/ PrintSummary

Spec == Init /\ [][Next]_vars

-----------------------------------------------------------------------------
(* Claims about parse_date, checked under SpecDate.                        *)

\* the twelve German month names in calendar order
GermanMonths ==
  <<Januar, Februar, Maerz, April, Mai, Juni, Juli, August, September,
    Oktober, November, Dezember>>

\* days of month number m of year y, from the calendar
CalendarDays(y, m) ==
  IF m = 2 /\ y % 4 = 0 /\ (y % 100 # 0 \/ y % 400 = 0) THEN 29
  ELSE <<31, 28, 31, 30, 31, 30, 31, 31, 30, 31, 30, 31>>[m]

\* the tokens of the text before the first "("
DateTokens == SplitWs(SplitFirst(date_str, "("))

ParseDateCalled == date_res # NotCalled

\* C1: an argument "<D>. <Month> <YYYY>", Month one of the twelve German
\* month names and D a valid day of that month and year, with or without a
\* parenthetical annotation " (...)" after it, parses to exactly the date
\* (YYYY, number of Month, D), whatever the annotation is.
C1_ValidDateParsesExactly ==
  (/\ ParseDateCalled
   /\ date_src.shape = "day month year"
   /\ date_src.sep = <<" ">>
   /\ date_src.suffix \in ParenAnnotations)
  => \A y \in YearsTried, m \in 1..12 :
       (date_src.year = Str(y) /\ date_src.month = GermanMonths[m])
       => \A d \in 1..CalendarDays(y, m) :
            date_src.day \in {Str(d) \o <<".">>, Pad2(d) \o <<".">>}
            => date_res = Ok([date |-> <<y, m, d>>, hour |-> 0])

\* C1 witness: the annotated example of the specification has been parsed
C1_Witness ==
  /\ date_str = <<"1", "4", ".", " ", "A", "u", "g", "u", "s", "t", " ", "2", "0", "2", "5", " ", "(", "M", "a", "r", "i", "ä", " ", "H", "i", "m", "m", "e", "l", "f", "a", "h", "r", "t", "/", "F", "r", ")">>
  /\ date_res = Ok([date |-> <<2025, 8, 14>>, hour |-> 0])

\* C6: an argument whose month token (the second token of the text before
\* the first "(") is not exactly one of the twelve German month names makes
\* parse_date fail; no date is returned for it.
C6_UnknownMonthFails ==
  (/\ ParseDateCalled
   /\ \/ Len(DateTokens) < 2
      \/ \A m \in 1..12 : DateTokens[2] # GermanMonths[m])
  => date_res.exc # "none"

\* C6 witness: "14. Smarch 2025" was rejected for its month name
C6_Witness ==
  /\ date_str = <<"1", "4", ".", " ", "S", "m", "a", "r", "c", "h", " ", "2", "0", "2", "5">>
  /\ date_res = Raise("KeyError")

\* a token of decimal digits only
C8_AllDigits(tok) == tok # << >> /\ \A j \in 1..Len(tok) : tok[j] \in Digit

\* a day token "digits, then a dot" or a bare number
C8_DayNumeric(tok) ==
  \/ C8_AllDigits(tok)
  \/ tok # << >> /\ tok[Len(tok)] = "." /\ C8_AllDigits(Slice(tok, 1, Len(tok) - 1))

\* what int() accepts in a token: an optional sign, then groups of decimal
\* digits separated by single underscores
C8_IntLiteral(tok) ==
  LET body == IF tok # << >> /\ tok[1] \in {"+", "-"} THEN Tail(tok) ELSE tok
      groups == SplitOn(body, "_")
  IN \A g \in 1..Len(groups) : C8_AllDigits(groups[g])

\* C8 as stated: an argument whose text before the first "(" does not split
\* into exactly three tokens, or whose day or year token is not numeric,
\* makes parse_date fail.
C8_MalformedShapeFails ==
  (/\ ParseDateCalled
   /\ \/ Len(DateTokens) # 3
      \/ ~C8_DayNumeric(DateTokens[1])
      \/ ~C8_AllDigits(DateTokens[3]))
  => date_res.exc # "none"

\* C8 amended: parse_date fails when the text before the first "(" has fewer
\* than three tokens, or when the first token with its dots removed or the
\* third token is not an integer literal of int(); tokens after the third
\* are ignored.
C8_TooFewOrNotIntFails ==
  (/\ ParseDateCalled
   /\ \/ Len(DateTokens) < 3
      \/ ~C8_IntLiteral(Remove(DateTokens[1], "."))
      \/ ~C8_IntLiteral(DateTokens[3]))
  => date_res.exc # "none"

\* C8 witness: a two-token argument was rejected
C8_Witness ==
  /\ Len(DateTokens) = 2
  /\ date_res = Raise("IndexError")

-----------------------------------------------------------------------------
(* Claim about parse_titles, checked under SpecTitles.                     *)

\* a line that starts with "(" or with the two letters "WA"
C3_IsContinuationLine(line) ==
  \/ line[1] = "("
  \/ Len(line) >= 2 /\ line[1] = "W" /\ line[2] = "A"

\* the positions of the lines that open a title entry
C3_Openers(lines) ==
  {j \in 1..Len(lines) : j = 1 \/ ~C3_IsContinuationLine(lines[j])}

\* the list the claim describes: one entry per opener, the opener and the
\* continuation lines after it joined by single spaces
C3_Expected(lines) ==
  LET open == C3_Openers(lines)
      nth(n) == CHOOSE a \in open : Cardinality({b \in open : b <= a}) = n
      last(n) == IF n = Cardinality(open) THEN Len(lines) ELSE nth(n + 1) - 1
  IN [n \in 1..Cardinality(open) |->
        Join(Slice(lines, nth(n), last(n)), <<" ">>)]

\* C3: over the non-blank trimmed lines of a cell, taken in order, a line is
\* appended to the previous title with one space iff it starts with "(" or
\* with "WA", every other line opens a new title, and a continuation line
\* that comes first is kept as an entry of its own; so "Film A", "(XYZ)",
\* "Film B" gives "Film A (XYZ)", "Film B" and "Film A", "WA", "Film B"
\* gives "Film A WA", "Film B".
C3_TitlesFollowContinuationRule ==
  cell_titles # NotCalled =>
    /\ cell_titles.val = C3_Expected(CellLines(cell))
    /\ cell = <<<<"F", "i", "l", "m", " ", "A">>, <<"(", "X", "Y", "Z", ")">>, <<"F", "i", "l", "m", " ", "B">>>>
         => cell_titles.val = <<<<"F", "i", "l", "m", " ", "A", " ", "(", "X", "Y", "Z", ")">>, <<"F", "i", "l", "m", " ", "B">>>>
    /\ cell = <<<<"F", "i", "l", "m", " ", "A">>, <<"W", "A">>, <<"F", "i", "l", "m", " ", "B">>>>
         => cell_titles.val = <<<<"F", "i", "l", "m", " ", "A", " ", "W", "A">>, <<"F", "i", "l", "m", " ", "B">>>>
    /\ cell = <<<<"(", "X", "Y", "Z", ")">>, <<"F", "i", "l", "m", " ", "B">>>>
         => cell_titles.val = <<<<"(", "X", "Y", "Z", ")">>, <<"F", "i", "l", "m", " ", "B">>>>

\* C3 witness: the "WA" example of the specification has been extracted
C3_Witness ==
  /\ cell = <<<<"F", "i", "l", "m", " ", "A">>, <<"W", "A">>, <<"F", "i", "l", "m", " ", "B">>>>
  /\ cell_titles = Ok(<<<<"F", "i", "l", "m", " ", "A", " ", "W", "A">>, <<"F", "i", "l", "m", " ", "B">>>>)

-----------------------------------------------------------------------------
(* Claims about the merge, checked under SpecMerge and SpecMergeFair.      *)

MergeDone == i >= Len(titles)

\* entry p has no "(" and a next entry exists and has one (p is 1-based)
C4_Joins(ts, p) ==
  /\ p < Len(ts)
  /\ \A j \in 1..Len(ts[p]) : ts[p][j] # "("
  /\ \E j \in 1..Len(ts[p + 1]) : ts[p + 1][j] = "("

\* the positions the left-to-right walk stops at
C4_Stops(ts) ==
  LET at[p \in 1..Len(ts)] ==
        \/ p = 1
        \/ at[p - 1] /\ ~C4_Joins(ts, p - 1)
        \/ p > 2 /\ at[p - 2] /\ C4_Joins(ts, p - 2)
  IN {p \in 1..Len(ts) : at[p]}

\* what the walk emits: per stop, the entry alone or joined with the next
C4_Walk(ts) ==
  LET stops == C4_Stops(ts)
      nth(n) == CHOOSE a \in stops : Cardinality({b \in stops : b <= a}) = n
  IN [n \in 1..Cardinality(stops) |->
        IF C4_Joins(ts, nth(n)) THEN ts[nth(n)] \o <<" ">> \o ts[nth(n) + 1]
        ELSE ts[nth(n)]]

\* C4: the merged list is the result of the left-to-right walk that emits
\* titles[i] + " " + titles[i+1] and advances by two when titles[i] has no
\* "(" and titles[i+1] exists and has one, and otherwise emits titles[i] and
\* advances by one; "Plattfuß am", "Nil (CRC) WA", "Other Film (XYZ)" merges
\* to "Plattfuß am Nil (CRC) WA", "Other Film (XYZ)".
C4_MergedIsWalk ==
  MergeDone =>
    /\ merged = C4_Walk(titles)
    /\ titles = <<<<"P", "l", "a", "t", "t", "f", "u", "ß", " ", "a", "m">>, <<"N", "i", "l", " ", "(", "C", "R", "C", ")", " ", "W", "A">>, <<"O", "t", "h", "e", "r", " ", "F", "i", "l", "m", " ", "(", "X", "Y", "Z", ")">>>>
         => merged = <<<<"P", "l", "a", "t", "t", "f", "u", "ß", " ", "a", "m", " ", "N", "i", "l", " ", "(", "C", "R", "C", ")", " ", "W", "A">>, <<"O", "t", "h", "e", "r", " ", "F", "i", "l", "m", " ", "(", "X", "Y", "Z", ")">>>>

\* C4 witness: the example of the specification has been merged
C4_Witness ==
  /\ titles = <<<<"P", "l", "a", "t", "t", "f", "u", "ß", " ", "a", "m">>, <<"N", "i", "l", " ", "(", "C", "R", "C", ")", " ", "W", "A">>, <<"O", "t", "h", "e", "r", " ", "F", "i", "l", "m", " ", "(", "X", "Y", "Z", ")">>>>
  /\ MergeDone
  /\ merged = <<<<"P", "l", "a", "t", "t", "f", "u", "ß", " ", "a", "m", " ", "N", "i", "l", " ", "(", "C", "R", "C", ")", " ", "W", "A">>, <<"O", "t", "h", "e", "r", " ", "F", "i", "l", "m", " ", "(", "X", "Y", "Z", ")">>>>

\* out is ts cut into consecutive pieces of one entry, or of two adjacent
\* entries joined by one space
RECURSIVE C10_Covers(_, _)
C10_Covers(out, ts) ==
  \/ out = << >> /\ ts = << >>
  \/ /\ out # << >> /\ ts # << >>
     /\ out[1] = ts[1]
     /\ C10_Covers(Tail(out), Tail(ts))
  \/ /\ out # << >> /\ Len(ts) >= 2
     /\ out[1] = ts[1] \o <<" ">> \o ts[2]
     /\ C10_Covers(Tail(out), Tail(Tail(ts)))

\* what holds of the loop state before and after every iteration
C10_LoopInvariant ==
  /\ i \in 0..Len(titles)
  /\ C10_Covers(merged, Slice(titles, 1, i))
  /\ Join(merged, <<" ">>) = Join(Slice(titles, 1, i), <<" ">>)
  /\ Len(merged) <= i /\ i <= 2 * Len(merged)

\* C10: the merge loses and reorders no text: the walk terminates, every
\* entry is consumed exactly once and in order (an output entry is one
\* input entry or two adjacent ones joined by one space), the merged list
\* joined by single spaces equals the input list joined by single spaces,
\* and it has between ceil(n/2) and n entries.
C10_MergeLosesNothing ==
  /\ []C10_LoopInvariant
  /\ <>(MergeDone /\ i = Len(titles))

\* C10 witness: a four-entry list ended as two joined pairs
C10_Witness ==
  /\ Len(titles) = 4 /\ MergeDone /\ Len(merged) = 2

-----------------------------------------------------------------------------
(* Claim about write_ics, checked under SpecIcs.                           *)

\* the eight digits of a date, from the number 10000 y + 100 m + d
C5_Stamp(date) == Str(10000 * date[1] + 100 * date[2] + date[3])

\* the date eight digits stand for
C5_Unstamp(digits) ==
  LET n == DigitsValue(digits, 0)
  IN <<n \div 10000, (n \div 100) % 100, n % 100>>

\* the number of the day in the proleptic Gregorian calendar
C5_Ordinal(date) ==
  LET y == date[1] - 1
      before[m \in 1..12] ==
        IF m = 1 THEN 0 ELSE before[m - 1] + CalendarDays(date[1], m - 1)
  IN 365 * y + (y \div 4) - (y \div 100) + (y \div 400) + before[date[2]] + date[3]

C5_IsCalendarDate(date) ==
  /\ date[2] \in 1..12
  /\ date[3] \in 1..CalendarDays(date[1], date[2])

\* the numbers of the lines equal to one line
C5_LinesEqual(lines, line) == {n \in 1..Len(lines) : lines[n] = line}

\* the n-th smallest number of a set
C5_Nth(S, n) == CHOOSE a \in S : Cardinality({b \in S : b <= a}) = n

\* the six lines from line b on are the block of the event: its start, the
\* day after as its end, its title after "SUMMARY:", and the closing line
C5_BlockOf(lines, b, event) ==
  /\ b + 5 <= Len(lines)
  /\ lines[b + 1] = <<"D", "T", "S", "T", "A", "R", "T", ";", "V", "A", "L", "U", "E", "=", "D", "A", "T", "E", ":">> \o C5_Stamp(event[1])
  /\ Slice(lines[b + 2], 1, 17) = <<"D", "T", "E", "N", "D", ";", "V", "A", "L", "U", "E", "=", "D", "A", "T", "E", ":">>
  /\ LET endValue == Slice(lines[b + 2], 18, Len(lines[b + 2]))
     IN /\ Len(endValue) = 8
        /\ \A j \in 1..8 : endValue[j] \in Digit
        /\ C5_IsCalendarDate(C5_Unstamp(endValue))
        /\ C5_Ordinal(C5_Unstamp(endValue)) = C5_Ordinal(event[1]) + 1
  /\ lines[b + 3] = <<"S", "U", "M", "M", "A", "R", "Y", ":">> \o event[2]
  /\ lines[b + 5] = <<"E", "N", "D", ":", "V", "E", "V", "E", "N", "T">>

\* the lines hold one block per event, in the order of the events
C5_BlocksMatch(lines, starts, evs) ==
  /\ Cardinality(starts) = Len(evs)
  /\ Cardinality(C5_LinesEqual(lines, <<"E", "N", "D", ":", "V", "E", "V", "E", "N", "T">>)) = Len(evs)
  /\ \A n \in 1..Len(evs) :
       /\ C5_BlockOf(lines, C5_Nth(starts, n), evs[n])
       /\ n < Len(evs) => C5_Nth(starts, n) + 5 < C5_Nth(starts, n + 1)

\* the lines of the file
FileLines == SplitOn(file, "\n")

\* C5: the text written holds exactly one VEVENT block per event, in the
\* order of the list; the block of (date, title) has the date-only start
\* date, the date-only end of the calendar day after it, also across the end
\* of a month and of a year, and a summary line with the title verbatim;
\* (2025-08-14, "Film X") gives 20250814, 20250815 and "Film X".
C5_OneBlockPerEvent ==
  pc = "returned" =>
    /\ C5_BlocksMatch(FileLines, C5_LinesEqual(FileLines, <<"B", "E", "G", "I", "N", ":", "V", "E", "V", "E", "N", "T">>), events)
    /\ events = <<<<<<2025, 8, 14>>, <<"F", "i", "l", "m", " ", "X">>>>>>
         => /\ FileLines[7] = <<"D", "T", "S", "T", "A", "R", "T", ";", "V", "A", "L", "U", "E", "=", "D", "A", "T", "E", ":", "2", "0", "2", "5", "0", "8", "1", "4">>
            /\ FileLines[8] = <<"D", "T", "E", "N", "D", ";", "V", "A", "L", "U", "E", "=", "D", "A", "T", "E", ":", "2", "0", "2", "5", "0", "8", "1", "5">>
            /\ FileLines[9] = <<"S", "U", "M", "M", "A", "R", "Y", ":", "F", "i", "l", "m", " ", "X">>

\* C5 witness: two events were written, the first on the last day of a year
C5_Witness ==
  /\ pc = "returned"
  /\ Len(events) = 2
  /\ events[1][1] = <<2024, 12, 31>>
  /\ FileLines[8] = <<"D", "T", "E", "N", "D", ";", "V", "A", "L", "U", "E", "=", "D", "A", "T", "E", ":", "2", "0", "2", "5", "0", "1", "0", "1">>

-----------------------------------------------------------------------------
(* Claims about fetch_events and main, checked under Spec.                 *)

\* the date cells of the fetched document, in document order
DateRefs == FindDateCells(page)

\* the text of the date cell at ref
CellText(ref) == GetTextStrip(CellAt(page, ref))

\* date a lies before date b, by the numbers 10000 y + 100 m + d
Before(a, b) ==
  10000 * a[1] + 100 * a[2] + a[3] < 10000 * b[1] + 100 * b[2] + b[3]

\* the text names one of the ten years from today's on
NamesNearYear(text) ==
  \E y \in 0..9 : Contains(text, Str(today.date[1] + y))

\* the date cell at ref stands in a row
InRow(ref) == page[ref[1]].tag = "tr"

\* the rows after the node of the date cell at ref
RowsAfter(ref) == {n \in (ref[1] + 1)..Len(page) : page[n].tag = "tr"}

\* the date cell at ref has titles: the next row after its row holds some
HasTitles(ref) ==
  /\ InRow(ref)
  /\ RowsAfter(ref) # {}
  /\ RowTitles(page[CHOOSE a \in RowsAfter(ref) : \A b \in RowsAfter(ref) : a <= b])
       # << >>

\* all the events are of one date
AllDated(evs, date) == \A n \in 1..Len(evs) : evs[n][1] = date

\* what C2 says of a date cell the loop has been at: parsed is what its
\* text parses to, added the events it appended
C2_CellRule(ref, parsed, added) ==
  parsed.exc = "none" =>
    IF Before(parsed.val.date, today.date) THEN added = << >>
    ELSE HasTitles(ref) => (added # << >> /\ AllDated(added, parsed.val.date))

\* the same, for a date cell whose text names a year of the window
C2_CellRuleNearYears(ref, parsed, added) ==
  parsed.exc = "none" =>
    IF Before(parsed.val.date, today.date) THEN added = << >>
    ELSE (NamesNearYear(CellText(ref)) /\ HasTitles(ref))
           => (added # << >> /\ AllDated(added, parsed.val.date))

Aborted ==
  /\ pc \notin {"harvested", "written", "done"}
  /\ file = OldFile
  /\ stdout = << >>

\* what parse_date gave for a text is a date of today or later
NotPast(parsed) == parsed.exc = "none" /\ ~Before(parsed.val.date, today.date)

\* a date cell that passes the year filter, parses, is not in the past and
\* has no parent row or no next sibling row
FatalCell(ref) ==
  /\ ~InRow(ref) \/ RowsAfter(ref) = {}
  /\ NamesNearYear(CellText(ref))
  /\ NotPast(parse_date(CellText(ref)))

HasFatalCell == \E j \in 1..Len(DateRefs) : FatalCell(DateRefs[j])

\* C7 as stated: when the fetch fails or comes back with a status outside
\* 200..299, or when a date cell that passed the year filter, parsed and is
\* not in the past has no parent row or no next sibling row, the run is
\* aborted: fetch_events raises, write_ics is not called, the file is
\* unchanged and no summary is printed.
C7_FatalFailuresAbort ==
  \/ Aborted
  \/ ~(\/ response.exc = "ConnectionError"
       \/ response.exc = "none" /\ response.status \notin 200..299
       \/ HasFatalCell)

\* C7 amended: the same of a fetch that fails or comes back with a 4xx or
\* 5xx status, which ends the run at once, and of such a date cell.
C7_ErrorStatusAborts ==
  /\ (\/ response.exc = "ConnectionError"
      \/ response.exc = "none" /\ response.status \in 400..599)
     => (Aborted /\ pc = "crashed")
  /\ (Aborted \/ ~HasFatalCell)

\* C7 witness: the run crashed at a date cell without a following row, with
\* events already collected and the file untouched
C7_Witness ==
  /\ pc = "crashed"
  /\ response.status = 200
  /\ events # << >>
  /\ k + 1 <= Len(DateRefs) /\ FatalCell(DateRefs[k + 1])
  /\ file = OldFile

\* the loop over the date cells has just ended, by return or by an exception
LoopEnded ==
  \/ pc = "harvested"
  \/ pc = "crashed" /\ page # << >>

\* the run ended as fetch_events ends on the document doc
EndsAsOn(doc) ==
  LET other == Harvest(doc, today)
  IN IF pc = "crashed" THEN other.exc # "none"
     ELSE other = Ok(events)

\* the document without the cell at ref
WithoutCell(doc, ref) ==
  IF doc[ref[1]].tag = "td"
  THEN SelectSeq([n \in 1..Len(doc) |-> IF n = ref[1] THEN << >> ELSE doc[n]],
                 LAMBDA node : node # << >>)
  ELSE [doc EXCEPT ![ref[1]].cells =
          SelectSeq([c \in 1..Len(@) |-> IF c = ref[2] THEN << >> ELSE @[c]],
                    LAMBDA x : x # << >>)]

\* the document with the cell at ref no longer marked as a date cell
Unmarked(doc, ref) == [doc EXCEPT ![ref[1]].cells[ref[2]].cls = ""]

\* the j-th date cell was skipped: it added no event and the run did not
\* end at it
Skipped(j) ==
  /\ j <= Len(contrib) => contrib[j] = << >>
  /\ ~(pc = "crashed" /\ j = k + 1)

Malformed(ref) == parse_date(CellText(ref)).exc # "none"

\* C9 as stated: a date cell whose text does not parse contributes no events
\* and does not abort the run, and the events of the other date cells are
\* those, in the same order, of the document without that cell.
C9_MalformedCellAsAbsent ==
  LoopEnded =>
    \A j \in 1..Len(DateRefs) :
      Malformed(DateRefs[j])
        => (Skipped(j) /\ EndsAsOn(WithoutCell(page, DateRefs[j])))

\* C9 amended: a date cell whose text does not parse appends no event and
\* does not abort the run, and the run ends with the events, in the same
\* order, of the document in which that cell is not marked as a date cell;
\* its text can still be read as a title of the date cell of the row before.
C9_MalformedCellAsUnmarked ==
  LoopEnded =>
    \A j \in 1..Len(DateRefs) :
      Malformed(DateRefs[j])
        => (Skipped(j) /\ EndsAsOn(Unmarked(page, DateRefs[j])))

\* C9 witness: a cell with an unknown month name was passed over before a
\* date cell that gave events
C9_Witness ==
  /\ pc = "harvested"
  /\ page = <<SmarchRow, HolidayRow, NilRow>>
  /\ Len(contrib) = 2 /\ contrib[1] = << >> /\ Len(contrib[2]) = 2

=============================================================================
